---- MODULE Spec2Model ----
(***************************************************************************)
(* size-ser: a serde Serializer that adds up a lower bound for the size of *)
(* a value (src/src/lib.rs).  The estimator is a visitor: the value's own  *)
(* Serialize impl calls one callback per sub-value, depth first, and every *)
(* callback works on the one `output` counter created by to_size.          *)
(*                                                                         *)
(* The model is the call stack of one traversal.  A frame is a pending     *)
(* `value.serialize(serializer)` call; each action is one callback of the  *)
(* estimator (or the return of one that made a nested serialize call).     *)
(***************************************************************************)
EXTENDS Integers, Sequences, FiniteSets, TLC

VARIABLES
    value,          \* the argument of the to_size call in progress (or the last one)
    stack,          \* pending serialize calls, innermost last
    output,         \* Serializer.output
    res,            \* Result<()> handed back by the serialize call that just returned
    pc,             \* "Idle" | "Accumulating" | "Done" | "Panicked"
    ret,            \* what to_size returned: <<"Ok", n>> or <<"Err">>; <<>> before
    first,          \* <<value, ret>> of the first completed to_size call; <<>> before
    overflowChecks  \* build profile: does `+=` panic on overflow (debug) or wrap (release)

vars == <<value, stack, output, res, pc, ret, first, overflowChecks>>

----------------------------------------------------------------------------
(* Bounds of the model. *)

\* width of usize, scaled down so that a handful of leaves can overflow it
UsizeBits == 5
\* primitive leaves carry a value in 0..MaxPrimVal
MaxPrimVal == 1
\* strings have at most MaxStrLen chars, byte blobs at most MaxStrLen bytes
MaxStrLen == 2
\* sequences of one primitive type have at most MaxSeqLen elements
MaxSeqLen == 2
\* nested values have at most MaxNodes nodes
MaxNodes == 3
\* maps of leaves have at most MaxEntries entries
MaxEntries == 2

UsizeModulus == 2 ^ UsizeBits

----------------------------------------------------------------------------
(* The serde data model: the shapes a value can describe itself as. *)

PrimTypes ==
    {"bool", "i8", "i16", "i32", "i64", "i128",
     "u8", "u16", "u32", "u64", "u128", "f32", "f64", "char"}

\* size_of::<$ty>() for the types of the ser! macro
SizeOf(ty) ==
    CASE ty \in {"bool", "i8", "u8"} -> 1
      [] ty \in {"i16", "u16"} -> 2
      [] ty \in {"i32", "u32", "f32", "char"} -> 4
      [] ty \in {"i64", "u64", "f64"} -> 8
      [] ty \in {"i128", "u128"} -> 16

LeafKinds == {"prim", "str", "bytes", "none", "unit", "unit_struct", "unit_variant"}
WrapKinds == {"some", "newtype_struct", "newtype_variant"}
SeqKinds  == {"seq", "tuple", "tuple_struct", "tuple_variant", "struct", "struct_variant"}

\* a &'static str (type, variant and field names), as its bytes
TypeName == <<83>>
FieldKey(i) == <<96 + i>>

\* One node of a value.  ty: the primitive type; name/tag: the type or variant
\* name and the variant index the impl passes; keys: the field names of a
\* struct; data: the primitive's value, or the bytes of a str / byte blob;
\* kids: the sub-values (a map's are key, value, key, value, ...).
Node(kind, ty, data, kids) ==
    [kind |-> kind, ty |-> ty,
     name |-> IF kind \in {"unit_struct", "unit_variant", "newtype_struct",
                           "newtype_variant", "tuple_struct", "tuple_variant",
                           "struct", "struct_variant"} THEN TypeName ELSE <<>>,
     tag  |-> IF kind \in {"unit_variant", "newtype_variant", "tuple_variant",
                           "struct_variant"} THEN 1 ELSE 0,
     keys |-> IF kind \in {"struct", "struct_variant"}
              THEN [i \in 1..Len(kids) |-> FieldKey(i)] ELSE <<>>,
     data |-> data, kids |-> kids]

Prim(ty, v)  == Node("prim", ty, <<v>>, <<>>)
Str(bytes)   == Node("str", "", bytes, <<>>)
Bytes(bytes) == Node("bytes", "", bytes, <<>>)
Leaf(kind)   == Node(kind, "", <<>>, <<>>)
\* a value whose own Serialize impl returns Err
Fail         == Node("fail", "", <<>>, <<>>)
Compound(kind, kids) == Node(kind, "", <<>>, kids)
NoValue      == Node("nil", "", <<>>, <<>>)

\* the UTF-8 encoding of one Unicode scalar value
Utf8(c) ==
    IF c < 128 THEN <<c>>
    ELSE IF c < 2048 THEN <<192 + (c \div 64), 128 + (c % 64)>>
    ELSE IF c < 65536
         THEN <<224 + (c \div 4096), 128 + ((c \div 64) % 64), 128 + (c % 64)>>
    ELSE <<240 + (c \div 262144), 128 + ((c \div 4096) % 64),
           128 + ((c \div 64) % 64), 128 + (c % 64)>>

RECURSIVE Encode(_)
\* the bytes of a String made of the chars cs
Encode(cs) == IF cs = <<>> THEN <<>> ELSE Utf8(Head(cs)) \o Encode(Tail(cs))

SeqsUpTo(S, n) == UNION {[1..k -> S] : k \in 0..n}

----------------------------------------------------------------------------
(* The inputs of to_size. *)

\* 'A', e-acute, the euro sign, an emoji: 1, 2, 3 and 4 bytes of UTF-8
Chars == {65, 233, 8364, 128512}
ByteVals == {0, 255}

Prims == {Prim(ty, v) : ty \in PrimTypes, v \in 0..MaxPrimVal}
Strs  == {Str(Encode(cs)) : cs \in SeqsUpTo(Chars, MaxStrLen)}
Blobs == {Bytes(b) : b \in SeqsUpTo(ByteVals, MaxStrLen)}
Units == {Leaf(k) : k \in {"none", "unit", "unit_struct", "unit_variant"}}

Leaves == Prims \cup Strs \cup Blobs \cup Units \cup {Fail}

\* sequences of one fixed-width primitive type
PrimSeqs ==
    UNION {{Compound("seq", es) : es \in SeqsUpTo({Prim(ty, v) : v \in 0..MaxPrimVal}, MaxSeqLen)}
           : ty \in PrimTypes}

\* the leaves nested values are built from
Atoms == {Prim("u8", 0), Prim("u128", 1), Str(Encode(<<233>>)), Leaf("none"), Fail}
\* the keys of maps: the two key types of the crate's tests
KeyAtoms == {Prim("u128", 1), Str(Encode(<<233>>))}

\* the compounds without sub-values (a tuple has at least one element)
Empties == {Compound(k, <<>>) : k \in (SeqKinds \ {"tuple"}) \cup {"map"}}

RECURSIVE TreesOf(_), Forests(_)
\* the values of exactly n nodes
TreesOf(n) ==
    IF n = 1
    THEN Atoms
    ELSE {Compound(k, <<t>>) : k \in WrapKinds, t \in TreesOf(n - 1)}
         \cup {Compound(k, f) : k \in SeqKinds, f \in Forests(n - 1)}
         \cup {Compound("map", f) : f \in {g \in Forests(n - 1) : Len(g) % 2 = 0}}
\* the non-empty sequences of values of m nodes in all (<<>> for m = 0)
Forests(m) ==
    IF m = 0 THEN {<<>>}
    ELSE UNION {{<<t>> \o f : t \in TreesOf(j), f \in Forests(m - j)} : j \in 1..m}

Trees == UNION {TreesOf(n) : n \in 1..MaxNodes}

\* maps of leaves, entry by entry
Maps ==
    {Compound("map", es) :
        es \in UNION {{e \in [1..(2 * k) -> Atoms] :
                          \A i \in 1..k : e[2 * i - 1] \in KeyAtoms}
                      : k \in 0..MaxEntries}}

Values == Leaves \cup PrimSeqs \cup Empties \cup Trees \cup Maps

\* what a later call of to_size is given, besides the first call's value again
Others == {Prim("u64", 0)}

----------------------------------------------------------------------------
(* The traversal, as a function of its configuration                       *)
(*   c = [stack, output, res, pc, ret].                                    *)
(* Every callback of the estimator is an operator from the configuration   *)
(* in which it is called to the one it leaves.                             *)

\* a pending value.serialize(serializer) call: idx counts the callbacks the
\* value's impl has made on a compound, inCall says one of them is running a
\* nested serialize call
Frame(v) == [node |-> v, idx |-> 0, inCall |-> FALSE]

Top(c) == c.stack[Len(c.stack)]
Cur == [stack |-> stack, output |-> output, res |-> res, pc |-> pc, ret |-> ret]

\* the innermost serialize call returns r to its caller
Return(c, r) ==
    IF c.pc = "Panicked" THEN c
    ELSE [c EXCEPT !.stack = SubSeq(c.stack, 1, Len(c.stack) - 1), !.res = r]

\* value.serialize(self), made from inside a callback of the innermost frame
CallSerialize(c, v) ==
    [c EXCEPT !.stack = Append([c.stack EXCEPT ![Len(c.stack)].inCall = TRUE], Frame(v)),
              !.res = "none"]

\* self.output += n, on a usize: past usize::MAX it panics in a build with
\* overflow checks and wraps in one without
add_assign(c, n) ==
    IF c.output + n < UsizeModulus THEN [c EXCEPT !.output = c.output + n]
    ELSE IF overflowChecks THEN [c EXCEPT !.pc = "Panicked"]
    ELSE [c EXCEPT !.output = (c.output + n) % UsizeModulus]

\* v.len() of a &str or a &[u8]: its number of bytes
len(bytes) == Len(bytes)

\* the number of chars of a str: the bytes that are no UTF-8 continuation byte
CharCount(bytes) == Cardinality({i \in 1..Len(bytes) : bytes[i] \div 64 # 2})

\* ser!(bool, ..., char): fn serialize_$ty(self, _: $ty)
serialize_prim(c) == Return(add_assign(c, SizeOf(Top(c).node.ty)), "Ok")
\* (mutant) v.chars().count() for v.len()
serialize_str_chars(c) == Return(add_assign(c, CharCount(Top(c).node.data)), "Ok")
serialize_str(c) == Return(add_assign(c, len(Top(c).node.data)), "Ok")
serialize_bytes(c) == Return(add_assign(c, len(Top(c).node.data)), "Ok")
\* (mutant) an absent option costs a tag byte
serialize_none_tagged(c) == Return(add_assign(c, 1), "Ok")
serialize_none(c) == Return(c, "Ok")
serialize_unit(c) == Return(c, "Ok")
serialize_unit_struct(c) == serialize_unit(c)
serialize_unit_variant(c) == Return(c, "Ok")

\* the wrappers hand the serializer on to the wrapped value ...
\* (mutant) a present option costs a tag byte
serialize_some_tagged(c) == CallSerialize(add_assign(c, 1), Top(c).node.kids[1])
serialize_some(c) == CallSerialize(c, Top(c).node.kids[1])
serialize_newtype_struct(c) == CallSerialize(c, Top(c).node.kids[1])
serialize_newtype_variant(c) == CallSerialize(c, Top(c).node.kids[1])
\* ... and return what it returned
serialize_some_return(c) == Return(c, c.res)
serialize_newtype_struct_return(c) == Return(c, c.res)
\* (mutant) let _ = value.serialize(&mut *self); Ok(())
serialize_newtype_variant_return_ignored(c) == Return(c, "Ok")
\* value.serialize(&mut *self)?; Ok(())
serialize_newtype_variant_return(c) ==
    IF c.res = "Err" THEN Return(c, "Err") ELSE Return(c, "Ok")

\* Ok(self): the serializer itself is the compound serializer
OpenCompound(c) == [c EXCEPT !.stack[Len(c.stack)].idx = 1]
serialize_seq(c) == OpenCompound(c)
serialize_tuple(c) == OpenCompound(c)
serialize_tuple_struct(c) == OpenCompound(c)
serialize_tuple_variant(c) == OpenCompound(c)
serialize_map(c) == OpenCompound(c)
serialize_struct(c) == OpenCompound(c)
serialize_struct_variant(c) == OpenCompound(c)

\* value.serialize(&mut **self) on the next sub-value
NextKid(c) == Top(c).node.kids[Top(c).idx]
SerializeSeq_serialize_element(c) == CallSerialize(c, NextKid(c))
SerializeTuple_serialize_element(c) == CallSerialize(c, NextKid(c))
SerializeTupleStruct_serialize_field(c) == CallSerialize(c, NextKid(c))
SerializeTupleVariant_serialize_field(c) == CallSerialize(c, NextKid(c))
SerializeMap_serialize_key(c) == CallSerialize(c, NextKid(c))
SerializeMap_serialize_value(c) == CallSerialize(c, NextKid(c))
\* the field's name is the impl's `_key`: Top(c).node.keys[Top(c).idx]
SerializeStruct_serialize_field(c) == CallSerialize(c, NextKid(c))
SerializeStructVariant_serialize_field(c) == CallSerialize(c, NextKid(c))

\* the callback returns the nested call's result to the value's impl, which
\* goes on to its next sub-value on Ok and returns the error on Err
element_return(c) ==
    IF c.res = "Err" THEN Return(c, "Err")
    ELSE [c EXCEPT !.stack[Len(c.stack)].idx = @ + 1,
                   !.stack[Len(c.stack)].inCall = FALSE,
                   !.res = "none"]

\* fn end(self) -> Result<()> { Ok(()) }
SerializeSeq_end(c) == Return(c, "Ok")
SerializeTuple_end(c) == Return(c, "Ok")
SerializeTupleStruct_end(c) == Return(c, "Ok")
SerializeTupleVariant_end(c) == Return(c, "Ok")
SerializeMap_end(c) == Return(c, "Ok")
SerializeStruct_end(c) == Return(c, "Ok")
SerializeStructVariant_end(c) == Return(c, "Ok")

\* the value's own Serialize impl fails without calling the serializer
serialize_fails(c) == Return(c, "Err")

\* (mutant) one serializer kept from call to call
to_size_enter_reused(c, v) ==
    [c EXCEPT !.stack = <<Frame(v)>>, !.res = "none", !.pc = "Accumulating", !.ret = <<>>]
\* let mut serializer = Serializer { output: 0 }; value.serialize(&mut serializer)
to_size_enter(c, v) ==
    [c EXCEPT !.stack = <<Frame(v)>>, !.output = 0, !.res = "none",
              !.pc = "Accumulating", !.ret = <<>>]
\* ...?; Ok(serializer.output)
to_size_return(c) ==
    [c EXCEPT !.pc = "Done", !.res = "none",
              !.ret = IF c.res = "Err" THEN <<"Err">> ELSE <<"Ok", c.output>>]

\* The callback that runs next: <<shape, step>>.  Which one that is, is the
\* choice of the value's Serialize impl: one callback per sub-value, depth
\* first, in the value's own order.
Callback(c) ==
    IF c.stack = <<>> THEN <<"to_size", "return">>
    ELSE LET f == Top(c)
             k == f.node.kind
             n == Len(f.node.kids)
         IN  IF k \in LeafKinds \cup {"fail"} THEN <<k, "visit">>
             ELSE IF k \in WrapKinds
                  THEN IF f.inCall THEN <<k, "return">> ELSE <<k, "call">>
             ELSE IF f.inCall THEN <<k, "element_return">>
             ELSE IF f.idx = 0 THEN <<k, "open">>
             ELSE IF f.idx > n THEN <<k, "end">>
             ELSE IF k = "map" THEN <<k, IF f.idx % 2 = 1 THEN "key" ELSE "value">>
             ELSE <<k, "element">>

Handler(cb, c) ==
    CASE cb = <<"prim", "visit">> -> serialize_prim(c)
      [] cb = <<"str", "visit">> -> serialize_str(c)
      [] cb = <<"bytes", "visit">> -> serialize_bytes(c)
      [] cb = <<"none", "visit">> -> serialize_none(c)
      [] cb = <<"unit", "visit">> -> serialize_unit(c)
      [] cb = <<"unit_struct", "visit">> -> serialize_unit_struct(c)
      [] cb = <<"unit_variant", "visit">> -> serialize_unit_variant(c)
      [] cb = <<"fail", "visit">> -> serialize_fails(c)
      [] cb = <<"some", "call">> -> serialize_some(c)
      [] cb = <<"some", "return">> -> serialize_some_return(c)
      [] cb = <<"newtype_struct", "call">> -> serialize_newtype_struct(c)
      [] cb = <<"newtype_struct", "return">> -> serialize_newtype_struct_return(c)
      [] cb = <<"newtype_variant", "call">> -> serialize_newtype_variant(c)
      [] cb = <<"newtype_variant", "return">> -> serialize_newtype_variant_return(c)
      [] cb = <<"seq", "open">> -> serialize_seq(c)
      [] cb = <<"tuple", "open">> -> serialize_tuple(c)
      [] cb = <<"tuple_struct", "open">> -> serialize_tuple_struct(c)
      [] cb = <<"tuple_variant", "open">> -> serialize_tuple_variant(c)
      [] cb = <<"map", "open">> -> serialize_map(c)
      [] cb = <<"struct", "open">> -> serialize_struct(c)
      [] cb = <<"struct_variant", "open">> -> serialize_struct_variant(c)
      [] cb = <<"seq", "element">> -> SerializeSeq_serialize_element(c)
      [] cb = <<"tuple", "element">> -> SerializeTuple_serialize_element(c)
      [] cb = <<"tuple_struct", "element">> -> SerializeTupleStruct_serialize_field(c)
      [] cb = <<"tuple_variant", "element">> -> SerializeTupleVariant_serialize_field(c)
      [] cb = <<"map", "key">> -> SerializeMap_serialize_key(c)
      [] cb = <<"map", "value">> -> SerializeMap_serialize_value(c)
      [] cb = <<"struct", "element">> -> SerializeStruct_serialize_field(c)
      [] cb = <<"struct_variant", "element">> -> SerializeStructVariant_serialize_field(c)
      [] cb[2] = "element_return" -> element_return(c)
      [] cb = <<"seq", "end">> -> SerializeSeq_end(c)
      [] cb = <<"tuple", "end">> -> SerializeTuple_end(c)
      [] cb = <<"tuple_struct", "end">> -> SerializeTupleStruct_end(c)
      [] cb = <<"tuple_variant", "end">> -> SerializeTupleVariant_end(c)
      [] cb = <<"map", "end">> -> SerializeMap_end(c)
      [] cb = <<"struct", "end">> -> SerializeStruct_end(c)
      [] cb = <<"struct_variant", "end">> -> SerializeStructVariant_end(c)
      [] cb = <<"to_size", "return">> -> to_size_return(c)

RECURSIVE Run(_)
\* the traversal from configuration c to its end
Run(c) == IF c.pc # "Accumulating" THEN c ELSE Run(Handler(Callback(c), c))

Fresh == [stack |-> <<>>, output |-> 0, res |-> "none", pc |-> "Idle", ret |-> <<>>]

\* to_size(&v): <<"Done", <<"Ok", n>>>>, <<"Done", <<"Err">>>> or <<"Panicked", <<>>>>
to_size(v) == LET c == Run(to_size_enter(Fresh, v)) IN <<c.pc, c.ret>>

----------------------------------------------------------------------------
(* The state machine. *)

Init ==
    /\ value = NoValue
    /\ stack = <<>>
    /\ output = 0
    /\ res = "none"
    /\ pc = "Idle"
    /\ ret = <<>>
    /\ first = <<>>
    /\ overflowChecks \in BOOLEAN

Set(c) ==
    /\ stack' = c.stack
    /\ output' = c.output
    /\ res' = c.res
    /\ pc' = c.pc
    /\ ret' = c.ret

\* the first call is given any value; a later one the first value again, or
\* one of a few other values
Inputs == IF pc = "Idle" THEN Values ELSE {first[1]} \cup Others

ToSize ==
    /\ pc \in {"Idle", "Done"}
    /\ \E v \in Inputs :
          /\ value' = v
          /\ Set(to_size_enter(Cur, v))
    /\ UNCHANGED <<first, overflowChecks>>

\* the callback cb is the one the value's impl makes next
At(cb) == pc = "Accumulating" /\ Callback(Cur) = cb

\* the callback runs; the value is borrowed (&T) and stays as it is
Step(c) == Set(c) /\ UNCHANGED <<value, first, overflowChecks>>

ToSizeReturn ==
    /\ At(<<"to_size", "return">>)
    /\ Set(to_size_return(Cur))
    /\ first' = IF first = <<>> THEN <<value, to_size_return(Cur).ret>> ELSE first
    /\ UNCHANGED <<value, overflowChecks>>

SerializePrim ==
    /\ At(<<"prim", "visit">>)
    /\ Step(Handler(<<"prim", "visit">>, Cur))
SerializeStr ==
    /\ At(<<"str", "visit">>)
    /\ Step(Handler(<<"str", "visit">>, Cur))
SerializeBytes ==
    /\ At(<<"bytes", "visit">>)
    /\ Step(Handler(<<"bytes", "visit">>, Cur))
SerializeNone ==
    /\ At(<<"none", "visit">>)
    /\ Step(Handler(<<"none", "visit">>, Cur))
SerializeUnit ==
    /\ At(<<"unit", "visit">>)
    /\ Step(Handler(<<"unit", "visit">>, Cur))
SerializeUnitStruct ==
    /\ At(<<"unit_struct", "visit">>)
    /\ Step(Handler(<<"unit_struct", "visit">>, Cur))
SerializeUnitVariant ==
    /\ At(<<"unit_variant", "visit">>)
    /\ Step(Handler(<<"unit_variant", "visit">>, Cur))
SerializeFails ==
    /\ At(<<"fail", "visit">>)
    /\ Step(Handler(<<"fail", "visit">>, Cur))
SerializeSome ==
    /\ At(<<"some", "call">>)
    /\ Step(Handler(<<"some", "call">>, Cur))
SerializeSomeReturn ==
    /\ At(<<"some", "return">>)
    /\ Step(Handler(<<"some", "return">>, Cur))
SerializeNewtypeStruct ==
    /\ At(<<"newtype_struct", "call">>)
    /\ Step(Handler(<<"newtype_struct", "call">>, Cur))
SerializeNewtypeStructReturn ==
    /\ At(<<"newtype_struct", "return">>)
    /\ Step(Handler(<<"newtype_struct", "return">>, Cur))
SerializeNewtypeVariant ==
    /\ At(<<"newtype_variant", "call">>)
    /\ Step(Handler(<<"newtype_variant", "call">>, Cur))
SerializeNewtypeVariantReturn ==
    /\ At(<<"newtype_variant", "return">>)
    /\ Step(Handler(<<"newtype_variant", "return">>, Cur))
SerializeSeq ==
    /\ At(<<"seq", "open">>)
    /\ Step(Handler(<<"seq", "open">>, Cur))
SerializeTuple ==
    /\ At(<<"tuple", "open">>)
    /\ Step(Handler(<<"tuple", "open">>, Cur))
SerializeTupleStruct ==
    /\ At(<<"tuple_struct", "open">>)
    /\ Step(Handler(<<"tuple_struct", "open">>, Cur))
SerializeTupleVariant ==
    /\ At(<<"tuple_variant", "open">>)
    /\ Step(Handler(<<"tuple_variant", "open">>, Cur))
SerializeMap ==
    /\ At(<<"map", "open">>)
    /\ Step(Handler(<<"map", "open">>, Cur))
SerializeStruct ==
    /\ At(<<"struct", "open">>)
    /\ Step(Handler(<<"struct", "open">>, Cur))
SerializeStructVariant ==
    /\ At(<<"struct_variant", "open">>)
    /\ Step(Handler(<<"struct_variant", "open">>, Cur))
SeqElement ==
    /\ At(<<"seq", "element">>)
    /\ Step(Handler(<<"seq", "element">>, Cur))
TupleElement ==
    /\ At(<<"tuple", "element">>)
    /\ Step(Handler(<<"tuple", "element">>, Cur))
TupleStructField ==
    /\ At(<<"tuple_struct", "element">>)
    /\ Step(Handler(<<"tuple_struct", "element">>, Cur))
TupleVariantField ==
    /\ At(<<"tuple_variant", "element">>)
    /\ Step(Handler(<<"tuple_variant", "element">>, Cur))
MapKey ==
    /\ At(<<"map", "key">>)
    /\ Step(Handler(<<"map", "key">>, Cur))
MapValue ==
    /\ At(<<"map", "value">>)
    /\ Step(Handler(<<"map", "value">>, Cur))
StructField ==
    /\ At(<<"struct", "element">>)
    /\ Step(Handler(<<"struct", "element">>, Cur))
StructVariantField ==
    /\ At(<<"struct_variant", "element">>)
    /\ Step(Handler(<<"struct_variant", "element">>, Cur))
ElementReturn ==
    /\ pc = "Accumulating"
    /\ Callback(Cur)[2] = "element_return"
    /\ Step(element_return(Cur))
SeqEnd ==
    /\ At(<<"seq", "end">>)
    /\ Step(Handler(<<"seq", "end">>, Cur))
TupleEnd ==
    /\ At(<<"tuple", "end">>)
    /\ Step(Handler(<<"tuple", "end">>, Cur))
TupleStructEnd ==
    /\ At(<<"tuple_struct", "end">>)
    /\ Step(Handler(<<"tuple_struct", "end">>, Cur))
TupleVariantEnd ==
    /\ At(<<"tuple_variant", "end">>)
    /\ Step(Handler(<<"tuple_variant", "end">>, Cur))
MapEnd ==
    /\ At(<<"map", "end">>)
    /\ Step(Handler(<<"map", "end">>, Cur))
StructEnd ==
    /\ At(<<"struct", "end">>)
    /\ Step(Handler(<<"struct", "end">>, Cur))
StructVariantEnd ==
    /\ At(<<"struct_variant", "end">>)
    /\ Step(Handler(<<"struct_variant", "end">>, Cur))

Next ==
    \/ ToSize \/ ToSizeReturn
    \/ SerializePrim \/ SerializeStr \/ SerializeBytes
    \/ SerializeNone \/ SerializeUnit \/ SerializeUnitStruct \/ SerializeUnitVariant
    \/ SerializeFails
    \/ SerializeSome \/ SerializeSomeReturn
    \/ SerializeNewtypeStruct \/ SerializeNewtypeStructReturn
    \/ SerializeNewtypeVariant \/ SerializeNewtypeVariantReturn
    \/ SerializeSeq \/ SerializeTuple \/ SerializeTupleStruct \/ SerializeTupleVariant
    \/ SerializeMap \/ SerializeStruct \/ SerializeStructVariant
    \/ SeqElement \/ TupleElement \/ TupleStructField \/ TupleVariantField
    \/ MapKey \/ MapValue \/ StructField \/ StructVariantField
    \/ ElementReturn
    \/ SeqEnd \/ TupleEnd \/ TupleStructEnd \/ TupleVariantEnd
    \/ MapEnd \/ StructEnd \/ StructVariantEnd

Spec == Init /\ [][Next]_vars

----------------------------------------------------------------------------
(* What the properties are stated with. *)

\* the contribution the design gives each leaf shape, in bytes
Contribution(v) ==
    CASE v.kind = "prim" ->
           (CASE v.ty \in {"bool", "i8", "u8"} -> 1
              [] v.ty \in {"i16", "u16"} -> 2
              [] v.ty \in {"i32", "u32", "f32", "char"} -> 4
              [] v.ty \in {"i64", "u64", "f64"} -> 8
              [] v.ty \in {"i128", "u128"} -> 16)
      [] v.kind \in {"str", "bytes"} -> Len(v.data)
      [] OTHER -> 0

RECURSIVE SumOver(_, _, _)
\* F(kids[i]) summed over i in 1..n, for F a function on the values kids holds
SumOver(F, kids, n) == IF n = 0 THEN 0 ELSE F[kids[n]] + SumOver(F, kids, n - 1)

RECURSIVE LeafSum(_)
\* the contributions of all leaves reachable from v, as a natural number
LeafSum(v) ==
    IF v.kids = <<>> THEN Contribution(v)
    ELSE SumOver([k \in {v.kids[i] : i \in 1..Len(v.kids)} |-> LeafSum(k)],
                 v.kids, Len(v.kids))

RECURSIVE ContainsFail(_)
\* some sub-value of v fails to describe itself
ContainsFail(v) ==
    \/ v.kind = "fail"
    \/ \E i \in 1..Len(v.kids) : ContainsFail(v.kids[i])

Returned == pc \in {"Done", "Panicked"}
ReturnedOk == pc = "Done" /\ ret[1] = "Ok"

\* to_size(v) returned Ok(n)
IsOk(r) == r[1] = "Done" /\ r[2][1] = "Ok"
Total(r) == r[2][2]

IsWrapper(v) == v.kind \in WrapKinds \/ (v.kind = "tuple" /\ Len(v.kids) = 1)
RECURSIVE Strip(_)
\* v without the wrappers stacked on it
Strip(v) == IF IsWrapper(v) THEN Strip(v.kids[1]) ELSE v

\* the map v with its entries enumerated in the order p (a permutation of 1..k)
Reordered(v, p) ==
    [v EXCEPT !.kids = [j \in 1..Len(v.kids) |->
                            v.kids[2 * p[(j + 1) \div 2] - (j % 2)]]]

----------------------------------------------------------------------------
(* The properties. *)

\* C1: when the traversal completes without error, to_size returns exactly
\* the sum of the contributions of the leaves reachable from the root.
C1_ExactLeafSum == ReturnedOk => ret[2] = LeafSum(value)

\* What the code does return: that sum modulo 2^UsizeBits.
WrappedLeafSum == ReturnedOk => ret[2] = LeafSum(value) % UsizeModulus

\* C2: a sequence of n elements of one fixed-width primitive type of width w
\* gives exactly n * w, whatever the elements' values.
C2_PrimSeqIsLenTimesWidth ==
    (Returned /\ value \in PrimSeqs)
        => /\ pc = "Done"
           /\ ret = <<"Ok", IF value.kids = <<>> THEN 0
                            ELSE Len(value.kids) * Contribution(value.kids[1])>>

\* C3: to_size of a struct is the sum of to_size of its fields; the struct's
\* name and the fields' names add nothing.
C3_StructIsSumOfFields ==
    LET kids == value.kids
        F == [k \in {kids[i] : i \in 1..Len(kids)} |-> to_size(k)]
    IN  (/\ Returned
         /\ value.kind = "struct"
         /\ \A i \in 1..Len(kids) : IsOk(F[kids[i]]))
            => /\ pc = "Done"
               /\ ret = <<"Ok", SumOver([k \in DOMAIN F |-> Total(F[k])], kids, Len(kids))>>

\* C4: to_size of a map is the sum over its entries of to_size(key) +
\* to_size(value), and is the same for every order of the entries.
C4_MapIsSumOfEntries ==
    LET kids == value.kids
        F == [k \in {kids[i] : i \in 1..Len(kids)} |-> to_size(k)]
    IN  (/\ Returned
         /\ value.kind = "map"
         /\ \A i \in 1..Len(kids) : IsOk(F[kids[i]]))
            => /\ pc = "Done"
               /\ ret = <<"Ok", SumOver([k \in DOMAIN F |-> Total(F[k])], kids, Len(kids))>>
               /\ \A p \in Permutations(1..(Len(kids) \div 2)) :
                     to_size(Reordered(value, p)) = <<pc, ret>>

\* the order of the entries alone: it does not change what to_size returns
MapOrderIrrelevant ==
    (ReturnedOk /\ value.kind = "map")
        => \A p \in Permutations(1..(Len(value.kids) \div 2)) :
              to_size(Reordered(value, p)) = <<pc, ret>>

\* C5: a string and a byte blob give exactly their length in bytes, under
\* whatever type name they are declared.
C5_ByteLength ==
    LET v == IF value.kind = "newtype_struct" THEN value.kids[1] ELSE value
    IN  (Returned /\ v.kind \in {"str", "bytes"})
            => pc = "Done" /\ ret = <<"Ok", Len(v.data)>>

C5_Witness ==
    /\ pc = "Done"
    /\ value.kind = "str"
    /\ CharCount(value.data) = 2
    /\ ret = <<"Ok", 7>>

\* C6: a present option, a newtype struct, a newtype variant and a tuple of
\* one element add nothing to the value they wrap, however many are stacked.
C6_WrappersAddNothing ==
    (Returned /\ IsWrapper(value)) => <<pc, ret>> = to_size(Strip(value))

C6_Witness ==
    /\ pc = "Done"
    /\ value.kind = "some"
    /\ value.kids[1].kind = "newtype_variant"
    /\ ret = <<"Ok", 16>>

\* C7: once a sub-value has failed, every pending call returns the failure
\* and nothing more is visited or counted; to_size returns the failure, and
\* an Ok total only if nothing failed.
C7_FailurePropagates ==
    /\ [][(pc = "Accumulating" /\ res = "Err")
            => /\ output' = output
               /\ \/ /\ stack # <<>>
                     /\ stack' = SubSeq(stack, 1, Len(stack) - 1)
                     /\ res' = "Err"
                     /\ pc' = "Accumulating"
                  \/ /\ stack = <<>>
                     /\ pc' = "Done"
                     /\ ret' = <<"Err">>]_vars
    /\ [](pc = "Done" => (ret = <<"Err">> <=> ContainsFail(value)))

C7_Witness ==
    /\ pc = "Done"
    /\ ret = <<"Err">>
    /\ output > 0
    /\ value.kind = "struct"
    /\ Len(value.kids) = 2
    /\ value.kids[2].kind = "fail"

\* C8: every call starts from an accumulator of 0, and a later call on the
\* value of the first call returns what the first call returned, whatever
\* was estimated in between.
C8_Deterministic ==
    /\ (pc = "Accumulating" /\ stack = <<Frame(value)>>) => output = 0
    /\ (pc = "Done" /\ first # <<>> /\ first[1] = value) => ret = first[2]
    /\ (pc = "Accumulating" /\ stack # <<>>) => stack[1].node = value

C8_Witness ==
    /\ pc = "Done"
    /\ first = <<value, ret>>
    /\ value.kind = "tuple"
    /\ ret = <<"Ok", 17>>
    /\ output = 17

\* C9: an absent option, a unit, a unit struct and a unit variant estimate to
\* 0, and no callback but a primitive, string or bytes visit changes the
\* accumulator.
C9_OnlyLeavesCount ==
    [][/\ (pc = "Accumulating" /\ Callback(Cur)[1] \notin {"prim", "str", "bytes"})
            => output' = output
       /\ (pc' = "Done" /\ value'.kind \in {"none", "unit", "unit_struct", "unit_variant"})
            => ret' = <<"Ok", 0>>]_vars

C9_Witness ==
    /\ pc = "Accumulating"
    /\ output = 16
    /\ Callback(Cur) = <<"none", "visit">>

\* C10: the accumulator starts at 0, no callback decreases it, and to_size
\* returns its final value.
C10_NeverDecreases ==
    [][/\ (pc # "Accumulating" /\ pc' = "Accumulating") => output' = 0
       /\ pc = "Accumulating" => output' >= output
       /\ (pc' = "Done" /\ ret'[1] = "Ok") => ret'[2] = output]_vars

====
